---------------------------- MODULE Spec2Model ----------------------------
(***************************************************************************)
(* A model of run_rum.py: the hourly job that refreshes a Zoho token,      *)
(* fetches Site24x7 RUM data per monitor, formats the slow transactions    *)
(* into a table and posts it to Telegram.                                  *)
(*                                                                         *)
(* Text.  A Python str is a sequence of atoms.  An atom is either one      *)
(* character ("/", "*", "a", "b", BT for the backtick, AP for the          *)
(* apostrophe, LF for the newline, SP for the space) or one of the words   *)
(* the program's literals and regular expressions spell ("syn33", "slots", *)
(* "games", "index.html", "asia-ig7", "prod", "data", "nan", ...).  Every  *)
(* word of a pattern is delimited in that pattern by "/" or by an anchor,  *)
(* and no concatenation of atoms spells another atom, so matching atom by  *)
(* atom is matching character by character on the strings the atoms spell. *)
(*                                                                         *)
(* Floats.  A response time is an integral number of milliseconds or NaN;  *)
(* the float avg_s = avg_ms / 1000.0 is kept as [nan, ms], its value in    *)
(* thousandths of a second.  The division is correctly rounded and         *)
(* monotone, and thousandths are far coarser than a double's precision     *)
(* around 5.0 and 6.0, so comparing avg_s to 5.0 and 6 is comparing ms to  *)
(* 5000 and 6000.  Every comparison with NaN is false, as in IEEE 754.     *)
(***************************************************************************)
EXTENDS Integers, Sequences, FiniteSets, TLC

VARIABLES
    pc,          \* position of the run (of main, or of the function applied)
    path,        \* clean_path: the raw path
    cleaned,     \* clean_path(path) and what the caller's post-filter says
    recleaned,   \* clean_path applied to its own result
    resp,        \* fetch_rum_data: the parsed JSON body j
    fetchRes,    \* fetch_rum_data: what lines 74-85 return, or that they raised
    rum_data,    \* the records handed to send_monitor_block
    fmtRes,      \* format_monitor_lines(rum_data): its lines, or that it raised
    handed,      \* the messages handed to send_telegram_message_safe, in order
    env,         \* which of the five credentials are set in the environment
    nMonitors,   \* len(RUM_MONITORS)
    idx,         \* the monitor being processed (0 before the loop)
    kind,        \* the send_telegram_message_safe call in progress
    attempt,     \* its loop variable
    posts,       \* the outcomes of its requests.post calls so far
    sleeps,      \* the time.sleep arguments it has passed so far
    sendRet,     \* what the last finished call returned
    fetched,     \* per monitor: the number of fetch_rum_data calls
    failed,      \* per monitor: the stage at which its processing failed
    delivered,   \* the number of messages Telegram accepted (HTTP 200)
    tokenRes     \* refresh_access_token: not called, returned, or raised

vars == <<pc, path, cleaned, recleaned, resp, fetchRes, rum_data, fmtRes,
          handed, env, nMonitors, idx, kind, attempt, posts, sleeps, sendRet,
          fetched, failed, delivered, tokenRes>>

pathVars == <<path, cleaned, recleaned>>
jsonVars == <<resp, fetchRes>>
fmtVars == <<rum_data, fmtRes>>
mainVars == <<env, nMonitors, idx, kind, attempt, posts, sleeps, sendRet,
              fetched, failed, delivered, tokenRes>>

----------------------------------------------------------------------------
(* Bounds of the model. *)

\* the raw paths are the concatenations of at most MaxPieces pieces
MaxPieces == 4
\* the record lists have at most MaxRecords records
MaxRecords == 3
\* the configuration names at most MaxMonitors monitors
MaxMonitors == 2

----------------------------------------------------------------------------
(* Strings. *)

Max(a, b) == IF a >= b THEN a ELSE b

RECURSIVE Flatten(_)
Flatten(ss) == IF ss = <<>> THEN <<>> ELSE Head(ss) \o Flatten(Tail(ss))

\* s[i..] starts with lit
IsLit(s, i, lit) ==
    /\ i >= 1
    /\ i + Len(lit) - 1 <= Len(s)
    /\ SubSeq(s, i, i + Len(lit) - 1) = lit

DropFirst(s, n) == SubSeq(s, n + 1, Len(s))

startswith(s, lit) == IsLit(s, 1, lit)

\* needle in s, for two str
Contains(s, needle) == \E i \in 1..(Len(s) + 1) : IsLit(s, i, needle)

\* the number of characters an atom spells
AtomLen(a) ==
    CASE a = "syn33" -> 5
      [] a = "slots" -> 5
      [] a = "games" -> 5
      [] a = "index.html" -> 10
      [] a = "asia-ig7" -> 8
      [] a = "prod" -> 4
      [] a = "data" -> 4
      [] a = "list" -> 4
      [] a = "name" -> 4
      [] a = "average_response_time" -> 21
      [] a = "nan" -> 3
      [] a = "7000" -> 4
      [] a = "Site24x7" -> 8
      [] a = "RUM" -> 3
      [] a = "Summary" -> 7
      [] OTHER -> 1

RECURSIVE StrLen(_)
StrLen(s) == IF s = <<>> THEN 0 ELSE AtomLen(Head(s)) + StrLen(Tail(s))

\* str.replace("`", "'")
_sanitize_backticks(text) ==
    [i \in 1..Len(text) |-> IF text[i] = "BT" THEN "AP" ELSE text[i]]

\* str.lstrip(chars) and str.rstrip(chars)
RECURSIVE LStrip(_, _)
LStrip(s, chars) ==
    IF s # <<>> /\ Head(s) \in chars THEN LStrip(Tail(s), chars) ELSE s

RECURSIVE RStrip(_, _)
RStrip(s, chars) ==
    IF s # <<>> /\ s[Len(s)] \in chars
    THEN RStrip(SubSeq(s, 1, Len(s) - 1), chars)
    ELSE s

\* str.strip("/") and str.strip()
StripSlashes(s) == RStrip(LStrip(s, {"/"}), {"/"})
StripSpace(s) == RStrip(LStrip(s, {"LF", "SP"}), {"LF", "SP"})

----------------------------------------------------------------------------
(* The values json.loads returns.  An object keeps its members in document *)
(* order, as a dict does; its keys are distinct.                           *)

JNull == [t |-> "null"]
JBool(b) == [t |-> "bool", b |-> b]
JNum(n) == [t |-> "num", n |-> n]
JStr(s) == [t |-> "str", s |-> s]
JArr(a) == [t |-> "arr", a |-> a]
JObj(m) == [t |-> "obj", m |-> m]

\* isinstance(v, str), isinstance(v, list), isinstance(v, dict)
IsStr(v) == v.t = "str"
IsList(v) == v.t = "arr"
IsDict(v) == v.t = "obj"

\* key in d, for a dict d
HasKey(d, key) == \E i \in 1..Len(d.m) : d.m[i][1] = key

\* d[key], for a dict d that has the key
Lookup(d, key) ==
    LET i == CHOOSE i \in 1..Len(d.m) : d.m[i][1] = key IN d.m[i][2]

\* d.get(key, default)
get(d, key, default) == IF HasKey(d, key) THEN Lookup(d, key) ELSE default

\* bool(v)
Truthy(v) ==
    CASE v.t = "null" -> FALSE
      [] v.t = "bool" -> v.b
      [] v.t = "num" -> v.n # 0
      [] v.t = "str" -> v.s # <<>>
      [] v.t = "arr" -> v.a # <<>>
      [] v.t = "obj" -> v.m # <<>>

----------------------------------------------------------------------------
(* clean_path, lines 33-44. *)

\* /syn33/[^/]+/slots/games/[^/]+ matches at position i of s
SlotGamesAt(s, i) ==
    /\ IsLit(s, i, <<"/", "syn33", "/">>)
    /\ \E k \in 1..Len(s) :
          /\ \A j \in (i + 3)..(i + 2 + k) : j <= Len(s) /\ s[j] # "/"
          /\ IsLit(s, i + 3 + k, <<"/", "slots", "/", "games", "/">>)
          /\ i + 8 + k <= Len(s)
          /\ s[i + 8 + k] # "/"

\* re.search(r"/syn33/[^/]+/slots/games/[^/]+", path)
SearchSlotGames(s) == \E i \in 1..Len(s) : SlotGamesAt(s, i)

\* re.sub of a pattern anchored with ^ that is a literal
SubPrefix(s, lit) == IF IsLit(s, 1, lit) THEN DropFirst(s, Len(lit)) ELSE s

\* re.sub of an unanchored literal: every leftmost non-overlapping
\* occurrence is deleted, and the result is not scanned again
RECURSIVE SubAll(_, _)
SubAll(s, lit) ==
    IF s = <<>> THEN <<>>
    ELSE IF IsLit(s, 1, lit) THEN SubAll(DropFirst(s, Len(lit)), lit)
    ELSE <<Head(s)>> \o SubAll(Tail(s), lit)

\* re.sub of a literal anchored with $: the end of the string, or just
\* before a newline that ends it
SubSuffix(s, lit) ==
    LET n == Len(s)
        k == Len(lit)
    IN  IF IsLit(s, n - k + 1, lit) THEN SubSeq(s, 1, n - k)
        ELSE IF n >= 1 /\ s[n] = "LF" /\ IsLit(s, n - k, lit)
             THEN SubSeq(s, 1, n - k - 1) \o <<"LF">>
        ELSE s

\* re.sub(r"/+", "/", path)
RECURSIVE CollapseSlashes(_)
CollapseSlashes(s) ==
    IF Len(s) < 2 THEN s
    ELSE IF s[1] = "/" /\ s[2] = "/" THEN CollapseSlashes(Tail(s))
    ELSE <<Head(s)>> \o CollapseSlashes(Tail(s))

\* a plausible slip: the exclusion test anchored at the start of the path
SearchSlotGamesAnchored(s) == SlotGamesAt(s, 1)

\* line 37: the exclusion test
IsSlotGames(s) == SearchSlotGames(s)

\* lines 37-44: clean_path of a str
CleanStr(p) ==
    IF IsSlotGames(p) THEN <<>>
    ELSE LET p1 == SubPrefix(p, <<"/", "asia-ig7", "/">>)
             p2 == SubPrefix(p1, <<"/", "syn33", "/", "*", "/">>)
             p3 == SubAll(p2, <<"/", "games", "/", "*", "/">>)
             p4 == SubSuffix(p3, <<"/", "*", "/", "index.html">>)
         IN  StripSlashes(CollapseSlashes(p4))

\* clean_path of any value: lines 35-36 send what is no str to ""
clean_path(v) == IF ~IsStr(v) THEN <<>> ELSE CleanStr(v.s)

\* lines 97-100: the caller's filter on a cleaned path
PostFilterKeeps(c) ==
    /\ c # <<>>
    /\ ~startswith(c, <<"prod", "/">>)
    /\ StripSpace(c) \notin {<<"*">>, <<>>}

----------------------------------------------------------------------------
(* fetch_rum_data, lines 74-85: the records of a parsed body j. *)

Returned(v) == [raised |-> FALSE, v |-> v]
Raised == [raised |-> TRUE, v |-> <<>>]

\* line 74, "data" in j: a key of a dict, an element of a list, a substring
\* of a str; TypeError for a number, a boolean and None
DataInRaises(j) == j.t \in {"null", "bool", "num"}

DataIn(j) ==
    CASE j.t = "obj" -> HasKey(j, <<"data">>)
      [] j.t = "arr" -> \E i \in 1..Len(j.a) : j.a[i] = JStr(<<"data">>)
      [] j.t = "str" -> Contains(j.s, <<"data">>)
      [] OTHER -> FALSE

\* lines 82-84: the first list among the values of a dict, in its order
FirstListValue(d) ==
    LET hits == {i \in 1..Len(d.m) : IsList(d.m[i][2])}
    IN  IF hits = {} THEN <<>>
        ELSE d.m[CHOOSE i \in hits : \A k \in hits : i <= k][2].a

\* lines 76-85, for a value data_field
FromDataField(data_field) ==
    IF IsList(data_field) THEN data_field.a
    ELSE IF IsDict(data_field)
         THEN IF HasKey(data_field, <<"list">>)
                 /\ IsList(Lookup(data_field, <<"list">>))
              THEN Lookup(data_field, <<"list">>).a
              ELSE FirstListValue(data_field)
    ELSE <<>>

\* lines 74-85; j["data"] on line 76 is a TypeError unless j is a dict
ExtractRecords(j) ==
    IF DataInRaises(j) THEN Raised
    ELSE IF ~DataIn(j) THEN Returned(<<>>)
    ELSE IF ~IsDict(j) THEN Raised
    ELSE Returned(FromDataField(Lookup(j, <<"data">>)))

----------------------------------------------------------------------------
(* Floats: [nan, ms], the value in thousandths. *)

Float(ms) == [nan |-> FALSE, ms |-> ms]
NaN == [nan |-> TRUE, ms |-> 0]

\* x < y and x > y on floats
ISLT(x, y) == ~x.nan /\ ~y.nan /\ x.ms < y.ms
ISGT(x, y) == ISLT(y, x)

\* float(str): the numerals of the model, surrounding whitespace allowed;
\* ValueError for every other str
ParsesAsFloat(s) == StripSpace(s) \in {<<"7000">>, <<"nan">>}
ParseFloat(s) == IF StripSpace(s) = <<"nan">> THEN NaN ELSE Float(7000)

\* lines 102-106: float(item.get("average_response_time", 0)) / 1000.0,
\* and 0.0 when float raises (None, a list, a dict, a str that is no
\* numeral).  Milliseconds in, thousandths of a second out: the same number.
AvgSeconds(item) ==
    LET v == get(item, <<"average_response_time">>, JNum(0))
    IN  CASE v.t = "num" -> Float(v.n)
          [] v.t = "bool" -> Float(IF v.b THEN 1 ELSE 0)
          [] v.t = "str" /\ ParsesAsFloat(v.s) -> ParseFloat(v.s)
          [] OTHER -> Float(0)

DigitAtom(d) == <<"0", "1", "2", "3", "4", "5", "6", "7", "8", "9">>[d + 1]

RECURSIVE Digits(_)
Digits(n) ==
    IF n < 10 THEN <<DigitAtom(n)>>
    ELSE Digits(n \div 10) \o <<DigitAtom(n % 10)>>

\* line 114, f"{avg_s:.2f} sec": exact when the thousandths are a multiple
\* of ten, as every response time of the model is; "nan sec" for NaN
FormatSec(x) ==
    IF x.nan THEN <<"nan", "SP", "s", "e", "c">>
    ELSE Digits(x.ms \div 1000)
         \o <<".", DigitAtom((x.ms % 1000) \div 100),
              DigitAtom((x.ms % 100) \div 10)>>
         \o <<"SP", "s", "e", "c">>

----------------------------------------------------------------------------
(* list.sort(key=..., reverse=True), as CPython sorts a list of fewer than *)
(* 64 elements: the list is reversed, its first run is counted (and        *)
(* reversed if strictly descending), the rest is inserted by binary        *)
(* insertion, and the result is reversed again.  Only < on the keys is     *)
(* used.                                                                   *)

Reverse(s) == [i \in 1..Len(s) |-> s[Len(s) + 1 - i]]

\* count_run: the run a[1..] goes on while a[k] < a[k-1] is desc
RECURSIVE ExtendRun(_, _, _)
ExtendRun(a, k, desc) ==
    IF k > Len(a) THEN Len(a)
    ELSE IF ISLT(a[k].avg_s, a[k - 1].avg_s) = desc
         THEN ExtendRun(a, k + 1, desc)
    ELSE k - 1

\* binarysort's search: where pivot goes in the sorted a[l..r-1]
RECURSIVE BinSearch(_, _, _, _)
BinSearch(a, pivot, l, r) ==
    IF l >= r THEN l
    ELSE LET p == l + ((r - l) \div 2)
         IN  IF ISLT(pivot.avg_s, a[p].avg_s)
             THEN BinSearch(a, pivot, l, p)
             ELSE BinSearch(a, pivot, p + 1, r)

\* binarysort: a[1..start-1] is sorted; a[start..] is inserted
RECURSIVE BinarySort(_, _)
BinarySort(a, start) ==
    IF start > Len(a) THEN a
    ELSE LET l == BinSearch(a, a[start], 1, start)
         IN  BinarySort(SubSeq(a, 1, l - 1) \o <<a[start]>>
                        \o SubSeq(a, l, start - 1)
                        \o SubSeq(a, start + 1, Len(a)),
                        start + 1)

\* line 121: rows.sort(key=lambda x: x[1], reverse=True)
SortRows(rows) ==
    IF Len(rows) < 2 THEN rows
    ELSE LET a == Reverse(rows)
             desc == ISLT(a[2].avg_s, a[1].avg_s)
             n == ExtendRun(a, 3, desc)
             b == IF desc THEN Reverse(SubSeq(a, 1, n)) \o SubSeq(a, n + 1, Len(a))
                  ELSE a
         IN  Reverse(BinarySort(b, n + 1))

----------------------------------------------------------------------------
(* format_monitor_lines, lines 88-139. *)

Spaces(n) == [i \in 1..n |-> "SP"]
ljust(s, w) == s \o Spaces(w - StrLen(s))
rjust(s, w) == Spaces(w - StrLen(s)) \o s

\* the two glyphs of line 112: U+1F6A8, and U+26A0 with its variation selector
Siren == <<"SIREN">>
Warning == <<"WARNING", "VS16">>

\* line 118: "No data >= 5 sec"
NoDataLine == <<"N", "o", "SP", "data", "SP", "GE", "SP", "5", "SP", "s", "e", "c">>

\* line 109: the floor below which a record is skipped
BelowFloor(avg_s) == ISLT(avg_s, Float(5000))

\* line 112: emoji = siren if avg_s > 6 else warning
Glyph(avg_s) == IF ISGT(avg_s, Float(6000)) THEN Siren ELSE Warning

\* lines 95-115: whether a record (a dict) gives a row, and the row
GivesRow(item) ==
    LET raw_path == get(item, <<"name">>, JStr(<<>>))
        p == clean_path(IF Truthy(raw_path) THEN raw_path ELSE JStr(<<>>))
    IN  PostFilterKeeps(p) /\ ~BelowFloor(AvgSeconds(item))

RowOf(item) ==
    LET raw_path == get(item, <<"name">>, JStr(<<>>))
        p == clean_path(IF Truthy(raw_path) THEN raw_path ELSE JStr(<<>>))
        avg_s == AvgSeconds(item)
    IN  [game |-> _sanitize_backticks(p), avg_s |-> avg_s,
         avg_str |-> FormatSec(avg_s), emoji |-> Glyph(avg_s)]

\* lines 93-115: the rows, in the order of the records
RECURSIVE CollectRows(_)
CollectRows(items) ==
    IF items = <<>> THEN <<>>
    ELSE (IF GivesRow(Head(items)) THEN <<RowOf(Head(items))>> ELSE <<>>)
         \o CollectRows(Tail(items))

\* lines 124 and 126: max(len(r[0]) for r in rows), max(len(r[2]) ...)
RECURSIVE MaxGameLen(_)
MaxGameLen(rows) ==
    IF rows = <<>> THEN 0
    ELSE Max(StrLen(Head(rows).game), MaxGameLen(Tail(rows)))

RECURSIVE MaxAvgLen(_)
MaxAvgLen(rows) ==
    IF rows = <<>> THEN 0
    ELSE Max(StrLen(Head(rows).avg_str), MaxAvgLen(Tail(rows)))

\* line 135
RowLine(r, game_w, avg_w) ==
    ljust(r.game, game_w) \o rjust(r.avg_str, avg_w)
        \o <<"SP", "SP", "SP">> \o r.emoji

\* lines 123-139: the header, and each row followed by a blank line
TableLines(rows) ==
    LET game_w == Max(20, MaxGameLen(rows) + 2)
        avg_w == Max(8, MaxAvgLen(rows))
        header == ljust(<<"G", "a", "m", "e">>, game_w)
                      \o rjust(<<"A", "v", "g">>, avg_w)
    IN  <<header, <<>>>>
        \o Flatten([i \in 1..Len(rows) |->
                        <<RowLine(rows[i], game_w, avg_w), <<>>>>])

\* format_monitor_lines(rum_data): item.get on line 95 is an AttributeError
\* for a record that is no dict.  rows is the sorted local of line 121.
format_monitor_lines(data) ==
    IF \E i \in 1..Len(data) : ~IsDict(data[i])
    THEN [raised |-> TRUE, rows |-> <<>>, lines |-> <<>>]
    ELSE LET rows == SortRows(CollectRows(data))
         IN  [raised |-> FALSE, rows |-> rows,
              lines |-> IF rows = <<>> THEN <<NoDataLine>> ELSE TableLines(rows)]

----------------------------------------------------------------------------
(* send_monitor_block, lines 167-184: the one message of a monitor. *)

Backticked(s) == <<"BT">> \o s \o <<"BT">>

TitleLine == Backticked(<<"CHART", "SP", "Site24x7", "SP", "RUM", "SP", "Summary">>)
Divider == [i \in 1..40 |-> "-"]

\* lines 171-181
MsgLines(monitor_name, lines) ==
    <<TitleLine, <<>>,
      Backticked(<<"[">> \o _sanitize_backticks(monitor_name) \o <<"]">>),
      <<>>>>
    \o [i \in 1..Len(lines) |-> Backticked(_sanitize_backticks(lines[i]))]
    \o <<Backticked(Divider)>>

\* "\n".join(msg_lines)
RECURSIVE Join(_)
Join(ls) ==
    IF ls = <<>> THEN <<>>
    ELSE IF Len(ls) = 1 THEN ls[1]
    ELSE ls[1] \o <<"LF">> \o Join(Tail(ls))

\* send_monitor_block hands one message to send_telegram_message_safe,
\* whatever the number and the size of the lines
ReportMessages(monitor_name, lines) ==
    << [kind |-> "report", monitor |-> monitor_name,
        msg_lines |-> MsgLines(monitor_name, lines)] >>

----------------------------------------------------------------------------
(* The raw paths of the model. *)

Pieces ==
    { <<"/">>, <<"a">>, <<"*">>,
      <<"/", "syn33", "/">>,
      <<"a", "/", "slots", "/", "games", "/">>,
      <<"/", "*", "/", "index.html">>,
      <<"/", "asia-ig7", "/">>,
      <<"prod", "/">>,
      <<"/", "games", "/">> }

RawPaths ==
    { Flatten(ps) : ps \in UNION { [1..n -> Pieces] : n \in 0..MaxPieces } }

NoClean == [done |-> FALSE, v |-> <<>>, kept |-> FALSE]
NoFmt == [raised |-> FALSE, rows |-> <<>>, lines |-> <<>>]

Creds == {"ZOHO_REFRESH_TOKEN", "ZOHO_CLIENT_ID", "ZOHO_CLIENT_SECRET",
          "TELEGRAM_BOT_TOKEN", "TELEGRAM_CHAT_ID"}

\* a record as Site24x7 lists it
Item(name, art) ==
    JObj(<< <<<<"name">>, name>>, <<<<"average_response_time">>, art>> >>)

\* the record of the specification's excluded scenario
SlotGamesItem ==
    Item(JStr(<<"/", "syn33", "/", "a", "/", "slots", "/", "games", "/", "a">>),
         JNum(9000))

\* what each part of the model holds while another part runs
IdlePath == path = <<>> /\ cleaned = NoClean /\ recleaned = NoClean
IdleJson == resp = JNull /\ fetchRes = Returned(<<>>)
IdleFmt == rum_data = <<>> /\ fmtRes = NoFmt /\ handed = <<>>
IdleMain ==
    /\ env = [c \in Creds |-> TRUE]
    /\ nMonitors = 0
    /\ idx = 0
    /\ kind = "none"
    /\ attempt = 0
    /\ posts = <<>>
    /\ sleeps = <<>>
    /\ sendRet = "none"
    /\ fetched = <<>>
    /\ failed = <<>>
    /\ delivered = 0
    /\ tokenRes = "none"

----------------------------------------------------------------------------
(* clean_path applied to the raw paths, and to its own results. *)

InitPath ==
    /\ pc = "path"
    /\ path \in RawPaths
    /\ cleaned = NoClean
    /\ recleaned = NoClean
    /\ IdleJson /\ IdleFmt /\ IdleMain

\* format_monitor_lines, lines 96-100, on one record's name
CleanPath ==
    /\ pc = "path"
    /\ LET c == clean_path(JStr(path))
       IN  cleaned' = [done |-> TRUE, v |-> c, kept |-> PostFilterKeeps(c)]
    /\ pc' = "cleaned"
    /\ UNCHANGED <<path, recleaned, jsonVars, fmtVars, handed, mainVars>>

\* the cleaned path is fed to clean_path again
CleanAgain ==
    /\ pc = "cleaned"
    /\ LET c == clean_path(JStr(cleaned.v))
       IN  recleaned' = [done |-> TRUE, v |-> c, kept |-> PostFilterKeeps(c)]
    /\ pc' = "recleaned"
    /\ UNCHANGED <<path, cleaned, jsonVars, fmtVars, handed, mainVars>>

\* the response times of a record named by the raw path
SlowTimes == {JNum(9000), JStr(<<"nan">>)}

\* format_monitor_lines on a response of two records: one named by the raw
\* path, and the excluded scenario's
ReportPath ==
    /\ pc = "path"
    /\ \E art \in SlowTimes :
          LET data == <<Item(JStr(path), art), SlotGamesItem>>
          IN  /\ rum_data' = data
              /\ fmtRes' = format_monitor_lines(data)
    /\ pc' = "reported"
    /\ UNCHANGED <<pathVars, jsonVars, handed, mainVars>>

NextPath == CleanPath \/ CleanAgain \/ ReportPath

SpecPath == InitPath /\ [][NextPath]_vars

----------------------------------------------------------------------------
(* fetch_rum_data's extraction applied to parsed bodies. *)

\* an object of the model has at most MaxMembers members
MaxMembers == 2

PlainItem == Item(JStr(<<"/", "asia-ig7", "/", "a">>), JStr(<<"7000">>))

Scalars ==
    {JNull, JBool(TRUE), JNum(5), JStr(<<"a">>), JStr(<<"data">>),
     JStr(<<"a", "data">>)}

Lists ==
    {JArr(<<>>), JArr(<<PlainItem>>), JArr(<<SlotGamesItem>>),
     JArr(<<JStr(<<"data">>)>>), JArr(<<JNum(5)>>)}

\* the objects with distinct keys among keys, in every order, and values
\* among values
Objects(keys, values) ==
    { JObj([i \in 1..n |-> <<ks[i], vs[i]>>]) :
        <<n, ks, vs>> \in
          UNION { {n} \X {ks \in [1..n -> keys] :
                            \A a, b \in 1..n : a # b => ks[a] # ks[b]}
                      \X [1..n -> values] :
                  n \in 0..MaxMembers } }

InnerObjects ==
    Objects({<<"list">>, <<"a">>, <<"b">>},
            {JNum(5), JArr(<<PlainItem>>), JArr(<<>>)})

Bodies ==
    Scalars \cup Lists
        \cup Objects({<<"data">>, <<"a">>}, Scalars \cup Lists \cup InnerObjects)

InitJson ==
    /\ pc = "body"
    /\ resp \in Bodies
    /\ fetchRes = Returned(<<>>)
    /\ IdlePath /\ IdleFmt /\ IdleMain

\* lines 74-85 on the body r.json() returned
Extract ==
    /\ pc = "body"
    /\ fetchRes' = ExtractRecords(resp)
    /\ pc' = "extracted"
    /\ UNCHANGED <<resp, pathVars, fmtVars, handed, mainVars>>

NextJson == Extract

SpecJson == InitJson /\ [][NextJson]_vars

----------------------------------------------------------------------------
(* send_monitor_block applied to lists of records. *)

Names ==
    {JStr(<<"/", "asia-ig7", "/", "a">>), JStr(<<"b", "BT">>),
     JStr(<<"/", "syn33", "/", "a", "/", "slots", "/", "games", "/", "a">>)}

Times ==
    {JNum(4990), JNum(5000), JNum(5010), JNum(6000), JNum(6010),
     JStr(<<"7000">>), JStr(<<"nan">>), JNull}

\* the records, and a list element that is no dict
Items == {Item(n, a) : n \in Names, a \in Times} \cup {JNum(5)}

RecordLists == UNION { [1..n -> Items] : n \in 0..MaxRecords }

\* the name of the m-th configured monitor
MonitorName(m) == [i \in 1..m |-> "M"]

InitFmt ==
    /\ pc = "records"
    /\ rum_data \in RecordLists
    /\ fmtRes = NoFmt
    /\ handed = <<>>
    /\ IdlePath /\ IdleJson /\ IdleMain

\* send_monitor_block, lines 167-184, up to its call of
\* send_telegram_message_safe
SendMonitorBlock ==
    /\ pc = "records"
    /\ LET f == format_monitor_lines(rum_data)
       IN  /\ fmtRes' = f
           /\ handed' = IF f.raised THEN handed
                        ELSE handed \o ReportMessages(MonitorName(1), f.lines)
           /\ pc' = IF f.raised THEN "raised" ELSE "handed"
    /\ UNCHANGED <<rum_data, pathVars, jsonVars, mainVars>>

NextFmt == SendMonitorBlock

SpecFmt == InitFmt /\ [][NextFmt]_vars

----------------------------------------------------------------------------
(* main, lines 187-212, with the functions it calls. *)

\* line 153: range(3)
MaxAttempts == 3

\* a plausible slip: time.sleep(2 * attempt)
BackoffLinear(a) == 2 * a

\* line 163: time.sleep(2 ** attempt)
Backoff(a) == 2 ^ a

\* a plausible slip: no inner try around the error notice
NoticeRaisedEscapes == "crashed"

\* lines 210-212: an exception of the error notice is printed and the loop
\* continues
AfterNoticeRaised == "loop"

\* line 48 and line 143: the credentials each step needs
ZohoCredsSet ==
    env["ZOHO_REFRESH_TOKEN"] /\ env["ZOHO_CLIENT_ID"] /\ env["ZOHO_CLIENT_SECRET"]
TelegramCredsSet == env["TELEGRAM_BOT_TOKEN"] /\ env["TELEGRAM_CHAT_ID"]

\* the bodies Site24x7 answers with in the runs of the model
SampleBodies ==
    { JObj(<< <<<<"data">>, JArr(<<PlainItem>>)>> >>),
      JObj(<< <<<<"data">>, JObj(<< <<<<"list">>, JArr(<<SlotGamesItem>>)>> >>)>> >>),
      JObj(<< <<<<"data">>, JArr(<<JNum(5)>>)>> >>),
      JNull }

\* lines 74-85 and line 168 on the sample bodies, computed once: what
\* fetch_rum_data returns for each body, and format_monitor_lines for each
\* list of records so returned
SampleRecords == [j \in SampleBodies |-> ExtractRecords(j)]
SampleLines ==
    [d \in {SampleRecords[j].v : j \in SampleBodies} |-> format_monitor_lines(d)]

\* line 208: the error notice of a monitor; str(e) is spelt by the stage
ErrorMessage(monitor_name, stage) ==
    [kind |-> "error", monitor |-> monitor_name,
     msg_lines |->
        <<TitleLine,
          Backticked(<<"[">> \o _sanitize_backticks(monitor_name) \o <<"]">>),
          <<>>,
          Backticked(<<"CROSS", "SP">> \o _sanitize_backticks(<<stage>>))>>]

InitMain ==
    /\ pc = "start"
    /\ env \in [Creds -> BOOLEAN]
    /\ nMonitors \in 0..MaxMonitors
    /\ idx = 0
    /\ kind = "none"
    /\ attempt = 0
    /\ posts = <<>>
    /\ sleeps = <<>>
    /\ sendRet = "none"
    /\ fetched = [m \in 1..nMonitors |-> 0]
    /\ failed = [m \in 1..nMonitors |-> "none"]
    /\ delivered = 0
    /\ tokenRes = "none"
    /\ IdlePath /\ IdleJson /\ IdleFmt

callVars == <<kind, attempt, posts, sleeps, sendRet>>

\* lines 189-195: the run goes on only at the top of the hour
Gate ==
    /\ pc = "start"
    /\ \E top_of_hour \in BOOLEAN :
          pc' = IF top_of_hour THEN "token" ELSE "exit0"
    /\ UNCHANGED <<pathVars, jsonVars, fmtVars, handed, mainVars>>

\* line 198 with refresh_access_token, lines 47-58; main catches nothing
RefreshToken ==
    /\ pc = "token"
    /\ \E answer \in {"ok", "http_error", "exception", "no_access_token"} :
          IF ZohoCredsSet /\ answer = "ok"
          THEN tokenRes' = "returned" /\ pc' = "loop"
          ELSE tokenRes' = "raised" /\ pc' = "crashed"
    /\ UNCHANGED <<pathVars, jsonVars, fmtVars, handed, env, nMonitors, idx,
                   callVars, fetched, failed, delivered>>

\* lines 199-200: the next monitor, or the end of the run
NextMonitor ==
    /\ pc = "loop"
    /\ IF idx < nMonitors
       THEN idx' = idx + 1 /\ pc' = "fetch"
       ELSE idx' = idx /\ pc' = "done"
    /\ UNCHANGED <<pathVars, jsonVars, fmtVars, handed, env, nMonitors,
                   callVars, fetched, failed, delivered, tokenRes>>

\* line 202 with fetch_rum_data, lines 60-85: requests.get, raise_for_status
\* or r.json() raises, or lines 74-85 run on the body
Fetch ==
    /\ pc = "fetch"
    /\ fetched' = [fetched EXCEPT ![idx] = @ + 1]
    /\ \/ \E stage \in {"exception", "http_error", "bad_json"} :
             /\ failed' = [failed EXCEPT ![idx] = stage]
             /\ pc' = "handler"
             /\ UNCHANGED <<resp, fetchRes, rum_data>>
       \/ \E j \in SampleBodies :
             LET x == SampleRecords[j]
             IN  /\ resp' = j
                 /\ fetchRes' = x
                 /\ IF x.raised
                    THEN /\ failed' = [failed EXCEPT ![idx] = "shape"]
                         /\ pc' = "handler"
                         /\ UNCHANGED rum_data
                    ELSE /\ rum_data' = x.v
                         /\ pc' = "send_block"
                         /\ UNCHANGED failed
    /\ UNCHANGED <<pathVars, fmtRes, handed, env, nMonitors, idx, callVars,
                   delivered, tokenRes>>

\* line 203 with send_monitor_block, lines 167-184, and the entry of
\* send_telegram_message_safe, lines 142-151
SendBlock ==
    /\ pc = "send_block"
    /\ LET f == SampleLines[rum_data]
       IN  /\ fmtRes' = f
           /\ IF f.raised
              THEN /\ failed' = [failed EXCEPT ![idx] = "format"]
                   /\ pc' = "handler"
                   /\ UNCHANGED <<handed, callVars>>
              ELSE /\ handed' = handed \o ReportMessages(MonitorName(idx), f.lines)
                   /\ IF TelegramCredsSet
                      THEN /\ kind' = "report"
                           /\ attempt' = 0
                           /\ posts' = <<>>
                           /\ sleeps' = <<>>
                           /\ sendRet' = "pending"
                           /\ pc' = "post"
                           /\ UNCHANGED failed
                      ELSE /\ failed' = [failed EXCEPT ![idx] = "credentials"]
                           /\ pc' = "handler"
                           /\ UNCHANGED callVars
    /\ UNCHANGED <<pathVars, jsonVars, rum_data, env, nMonitors, idx, fetched,
                   delivered, tokenRes>>

\* lines 154-162: one requests.post; HTTP 200 returns True
Post ==
    /\ pc = "post"
    /\ \E answer \in {"200", "http_error", "exception"} :
          /\ posts' = Append(posts, answer)
          /\ IF answer = "200"
             THEN /\ sendRet' = "True"
                  /\ delivered' = delivered + 1
                  /\ pc' = IF kind = "report" THEN "pause" ELSE "loop"
             ELSE /\ pc' = "sleep"
                  /\ UNCHANGED <<sendRet, delivered>>
    /\ UNCHANGED <<pathVars, jsonVars, fmtVars, handed, env, nMonitors, idx,
                   kind, attempt, sleeps, fetched, failed, tokenRes>>

\* lines 163-165: the sleep after a failed attempt, then the next attempt or
\* return False; send_monitor_block drops what the call returned
Sleep ==
    /\ pc = "sleep"
    /\ sleeps' = Append(sleeps, Backoff(attempt))
    /\ IF attempt + 1 < MaxAttempts
       THEN /\ attempt' = attempt + 1
            /\ pc' = "post"
            /\ UNCHANGED <<sendRet, failed>>
       ELSE /\ sendRet' = "False"
            /\ pc' = IF kind = "report" THEN "pause" ELSE "loop"
            /\ failed' = IF kind = "report"
                         THEN [failed EXCEPT ![idx] = "transport"]
                         ELSE failed
            /\ UNCHANGED attempt
    /\ UNCHANGED <<pathVars, jsonVars, fmtVars, handed, env, nMonitors, idx,
                   kind, posts, fetched, delivered, tokenRes>>

\* line 204: time.sleep(1) after send_monitor_block returned
Pause ==
    /\ pc = "pause"
    /\ pc' = "loop"
    /\ UNCHANGED <<pathVars, jsonVars, fmtVars, handed, mainVars>>

\* lines 205-212: the error notice of the monitor is handed to
\* send_telegram_message_safe, whose own exception is swallowed
Handler ==
    /\ pc = "handler"
    /\ handed' = Append(handed, ErrorMessage(MonitorName(idx), failed[idx]))
    /\ IF TelegramCredsSet
       THEN /\ kind' = "error"
            /\ attempt' = 0
            /\ posts' = <<>>
            /\ sleeps' = <<>>
            /\ sendRet' = "pending"
            /\ pc' = "post"
       ELSE /\ sendRet' = "raised"
            /\ pc' = AfterNoticeRaised
            /\ UNCHANGED <<kind, attempt, posts, sleeps>>
    /\ UNCHANGED <<pathVars, jsonVars, fmtVars, env, nMonitors, idx, fetched,
                   failed, delivered, tokenRes>>

Next ==
    \/ Gate
    \/ RefreshToken
    \/ NextMonitor
    \/ Fetch
    \/ SendBlock
    \/ Post
    \/ Sleep
    \/ Pause
    \/ Handler

Spec == InitMain /\ [][Next]_vars

\* every step of the run ends: the requests carry timeouts, the sleeps are
\* finite and nothing else runs
FairSpec == Spec /\ WF_vars(Next)

----------------------------------------------------------------------------
(* The claims. *)

TokenAcquired == tokenRes = "returned"

RunComplete ==
    /\ pc = "done"
    /\ idx = nMonitors
    /\ \A m \in 1..nMonitors : fetched[m] = 1

\* C1: once the token has been acquired, whatever the outcomes of the
\* fetches, of the report deliveries and of the error notices, every
\* configured monitor is processed and the run ends normally.
C1_RunCompletes == TokenAcquired ~> RunComplete

\* a completed run of two monitors: the first fetch raised and its error
\* notice was never accepted, the second report was never accepted
C1_Witness ==
    /\ pc = "done"
    /\ nMonitors >= 2
    /\ TelegramCredsSet
    /\ failed[1] = "exception"
    /\ failed[2] = "transport"
    /\ delivered = 0

\* the monitors whose processing is over
Completed(m) == m < idx \/ (m = idx /\ pc \in {"loop", "done"})

\* the error notices of monitor m handed to the delivery step
Notices(m) ==
    Cardinality({i \in 1..Len(handed) :
                    handed[i].kind = "error" /\ handed[i].monitor = MonitorName(m)})

\* C2: a monitor whose processing failed at any stage (fetch error,
\* malformed JSON, transport error while delivering the report) has exactly
\* one error notice handed to the delivery step before the next monitor
\* starts, and a monitor whose processing succeeded has none.
C2_OneNoticePerFailure ==
    \A m \in 1..nMonitors :
        Completed(m) => Notices(m) = (IF failed[m] = "none" THEN 0 ELSE 1)

FailedPosts == {i \in 1..Len(posts) : posts[i] # "200"}

\* C3: a call of send_telegram_message_safe makes at most 3 attempts and
\* none after an HTTP 200, sleeps 1, 2, 4 seconds after its failed attempts,
\* and returns failure without raising after the last one, so that no
\* delivery failure ends the run; each monitor is fetched exactly once.
C3_BoundedRetries ==
    /\ Len(posts) <= 3
    /\ \A i \in 1..(Len(posts) - 1) : posts[i] # "200"
    /\ Len(sleeps) <= 3
    /\ sleeps = SubSeq(<<1, 2, 4>>, 1, Len(sleeps))
    /\ Len(sleeps) = Cardinality(FailedPosts) - (IF pc = "sleep" THEN 1 ELSE 0)
    /\ (Len(posts) = 3 /\ posts[3] # "200" /\ pc # "sleep") => sendRet = "False"
    /\ sendRet = "False" => Cardinality(FailedPosts) = 3
    /\ pc = "crashed" => idx = 0
    /\ \A m \in 1..nMonitors :
          fetched[m] = (IF m < idx \/ (m = idx /\ pc # "fetch") THEN 1 ELSE 0)

\* three failed attempts, the three sleeps, failure returned, the run complete
C3_Witness ==
    /\ pc = "done"
    /\ nMonitors >= 1
    /\ Len(posts) = 3
    /\ sleeps = <<1, 2, 4>>
    /\ sendRet = "False"

\* C4: when a required credential is missing (Zoho or Telegram) or the token
\* is not acquired, the run ends with an error before any monitor is
\* fetched and before any message is delivered.
C4_ConfigErrorFatalFirst ==
    ((\E c \in Creds : ~env[c]) \/ tokenRes = "raised") =>
        /\ \A m \in 1..nMonitors : fetched[m] = 0
        /\ delivered = 0
        /\ pc # "done"

\* the glyph the claim gives a row
ClaimedGlyph(avg_s) ==
    IF ISGT(avg_s, Float(6000)) THEN Siren
    ELSE IF ISGT(avg_s, Float(5000)) THEN Warning
    ELSE <<>>

\* C5: the glyph of every row of the report is CRITICAL iff seconds > 6.0,
\* WARN iff 5.0 < seconds <= 6.0 and empty otherwise (5000 ms, 5010 ms,
\* 6000 ms, 6010 ms: empty, WARN, WARN, CRITICAL).
C5_SeverityThresholds ==
    \A i \in 1..Len(fmtRes.rows) :
        fmtRes.rows[i].emoji = ClaimedGlyph(fmtRes.rows[i].avg_s)

\* the budgets of row content per block the claim is read with
BlockBudgets == {64, 4096}

\* the rendered rows of the report, in report order (lines 134-137)
RenderedRows == [i \in 1..Len(fmtRes.rows) |-> fmtRes.lines[2 * i + 1]]

\* the row content of a block: its lines that are rendered rows
BlockRows(b) ==
    LET IsRow(l) == \E i \in 1..Len(RenderedRows) : l = Backticked(RenderedRows[i])
    IN  SelectSeq(b.msg_lines, IsRow)

RECURSIVE SizeOf(_)
SizeOf(ls) == IF ls = <<>> THEN 0 ELSE StrLen(Head(ls)) + 1 + SizeOf(Tail(ls))

\* the size of a block's row content, without the backticks around each row
RowContentSize(b) == SizeOf(BlockRows(b)) - 2 * Len(BlockRows(b))

\* C6: the row content of the blocks handed to delivery, in send order, is
\* every rendered row once and in report order; and when the rendered rows
\* exceed max_block_chars there are at least two blocks, each within
\* max_block_chars unless it is a single oversize row.
C6_ChunkedWithoutLoss ==
    pc = "handed" =>
        /\ Flatten([b \in 1..Len(handed) |-> BlockRows(handed[b])])
              = [i \in 1..Len(RenderedRows) |-> Backticked(RenderedRows[i])]
        /\ \A max_block_chars \in BlockBudgets :
              SizeOf(RenderedRows) > max_block_chars =>
                  /\ Len(handed) >= 2
                  /\ \A b \in 1..Len(handed) :
                        \/ RowContentSize(handed[b]) <= max_block_chars
                        \/ Len(BlockRows(handed[b])) = 1

\* the records the claim says a body gives
ClaimedRecords(j) ==
    IF ~(IsDict(j) /\ HasKey(j, <<"data">>)) THEN <<>>
    ELSE LET d == Lookup(j, <<"data">>)
         IN  IF IsList(d) THEN d.a
             ELSE IF ~IsDict(d) THEN <<>>
             ELSE IF HasKey(d, <<"list">>) /\ IsList(Lookup(d, <<"list">>))
                  THEN Lookup(d, <<"list">>).a
             ELSE IF \E i \in 1..Len(d.m) : IsList(d.m[i][2])
                  THEN LET first == CHOOSE i \in 1..Len(d.m) :
                                       /\ IsList(d.m[i][2])
                                       /\ \A k \in 1..(i - 1) : ~IsList(d.m[k][2])
                       IN  d.m[first][2].a
             ELSE <<>>

\* C7: for every parsed JSON value the extraction returns a sequence and
\* does not raise: empty without a "data" field, the "data" value when it is
\* a sequence, for a mapping its "list" sequence or else its first
\* sequence-valued entry in key order, and empty for every other shape.
C7_ExtractionTotal ==
    pc = "extracted" => fetchRes = Returned(ClaimedRecords(resp))

\* the positions of the records that give a row, in input order
Qualifying == SelectSeq([i \in 1..Len(rum_data) |-> i],
                        LAMBDA i : IsDict(rum_data[i]) /\ GivesRow(rum_data[i]))

Perms(n) ==
    {f \in [1..n -> 1..n] : \A a, b \in 1..n : a # b => f[a] # f[b]}

\* C8: the rows are ordered by seconds non-increasing (no row is before a
\* row of strictly more seconds), rows of equal seconds keep the relative
\* order of their records, and each row is the row of exactly one
\* qualifying record.
C8_SortedStable ==
    pc = "handed" =>
        LET rows == fmtRes.rows
            n == Len(rows)
        IN  /\ n = Len(Qualifying)
            /\ \A i, k \in 1..n : i < k => ~ISLT(rows[i].avg_s, rows[k].avg_s)
            /\ \E f \in Perms(n) :
                  /\ \A i \in 1..n : rows[i] = RowOf(rum_data[Qualifying[f[i]]])
                  /\ \A i, k \in 1..n :
                        (i < k /\ rows[i].avg_s = rows[k].avg_s) => f[i] < f[k]

\* C9: for every raw path whose cleaned path passes the post-filter,
\* cleaning the cleaned path again changes nothing.
C9_Idempotent ==
    (pc = "recleaned" /\ cleaned.kept) => recleaned.v = cleaned.v

\* p[i..] is a run of k >= 1 atoms other than "/"
IsSegment(p, i, k) ==
    k >= 1 /\ i + k - 1 <= Len(p) /\ \A x \in i..(i + k - 1) : p[x] # "/"

\* p holds /<group>/<token>/slots/games/<leaf>, with any group or with the
\* given one
HasSlotGamesSegment(p, AnyGroup, group) ==
    \E i \in 1..Len(p) :
        /\ p[i] = "/"
        /\ \E g \in 1..(Len(p) - i) :
              /\ IsLit(p, i + 1 + g, <<"/">>)
              /\ IsSegment(p, i + 1, g)
              /\ AnyGroup \/ SubSeq(p, i + 1, i + g) = group
              /\ \E k \in 1..(Len(p) - i - g) :
                    /\ IsLit(p, i + 2 + g + k, <<"/", "slots", "/", "games", "/">>)
                    /\ IsSegment(p, i + 2 + g, k)
                    /\ IsSegment(p, i + 7 + g + k, 1)

\* the names of the records of rum_data
NamesOf(data) == {get(data[i], <<"name">>, JStr(<<>>)).s : i \in 1..Len(data)}

\* C10 as stated: a raw path with a segment /<group>/<token>/slots/games/<leaf>,
\* whatever the group, is cleaned to the empty string, and a response whose
\* records all match gives only the placeholder line.
C10_AnyGroupExcluded ==
    /\ (cleaned.done /\ HasSlotGamesSegment(path, TRUE, <<>>)) => cleaned.v = <<>>
    /\ (pc = "reported"
          /\ \A p \in NamesOf(rum_data) : HasSlotGamesSegment(p, TRUE, <<>>))
        => fmtRes.lines = <<NoDataLine>>

\* C10, amended: a raw path with a segment /syn33/<token>/slots/games/<leaf>,
\* whatever the token, the leaf and the segments around, is cleaned to the
\* empty string, and a response whose records all match gives no row and
\* only the placeholder line, whatever the response times.
C10_Syn33Excluded ==
    /\ (cleaned.done /\ HasSlotGamesSegment(path, FALSE, <<"syn33">>))
        => cleaned.v = <<>>
    /\ (pc = "reported"
          /\ \A p \in NamesOf(rum_data) : HasSlotGamesSegment(p, FALSE, <<"syn33">>))
        => (~fmtRes.raised /\ fmtRes.rows = <<>> /\ fmtRes.lines = <<NoDataLine>>)

\* a slow record whose path holds the syn33 segment after another segment
C10_Witness ==
    /\ pc = "reported"
    /\ HasSlotGamesSegment(path, FALSE, <<"syn33">>)
    /\ path[1] # "/"
    /\ Lookup(rum_data[1], <<"average_response_time">>) = JNum(9000)
    /\ fmtRes.lines = <<NoDataLine>>

=============================================================================
